---- MODULE Spec2Model ----
(***************************************************************************)
(* Model of the event-sorcerer runtime: the message derivation helpers,    *)
(* the in-memory event store, the repository and the event-sourcing        *)
(* router (handleCommand with its optimistic-lock retry loop, handleEvent).*)
(*                                                                         *)
(* Message ids are UUIDs in the code.  A UUID v5 is a deterministic,       *)
(* collision-free function of (namespace, name); it is modelled as the     *)
(* tuple of the namespace id with the name appended.  The timestamp field  *)
(* (Date.now()) is not part of any property checked here and is left out   *)
(* of the message records.                                                 *)
(***************************************************************************)
EXTENDS Integers, Sequences, FiniteSets, TLC

\* ---------------------------------------------------------------- bounds
\* Most events the command handler returns for a command sent from outside.
MaxQty == 1
\* Most events one direct saveEvents call is given.
MaxBatch == 2
\* Number of commands originated from outside.
MaxRequests == 2
\* Number of handleCommand calls started over a run.
MaxCalls == 2
\* Most save attempts of one handleCommand call that the event store rejects
\* on behalf of writers outside this process.
MaxRejected == 6
\* Number of handleEvent calls over a run.
MaxEventCalls == 1
\* Number of direct calls to the event store API over a run (SpecStore,
\* SpecLoad).
MaxStoreCalls == 3
\* Number of direct calls over a run of every store operation (SpecOps).
MaxOpCalls == 2
\* Largest snapshot version passed to a direct event store call.
MaxVersion == 1
\* Most Repository.load calls one handleCommand call is let make; the retry
\* loop makes RetryLimit + 1 at most.
MaxLoads == 6

\* ------------------------------------------------------ program constants
\* `i < 5` in the catch block of handleCommand.
RetryLimit == 5

\* ---------------------------------------------------------------- values
Procs == {1, 2}
AggregateIds == {"a1", "a2"}
\* causationId: null
Null == <<>>
\* baseVersion: undefined
Undefined == -1
NoCommand == [id |-> Null, type |-> "", payload |-> [aggregateId |-> "", qty |-> 0],
              causationId |-> Null, correlationId |-> Null]
NoSnapshot == [id |-> "", version |-> 0, state |-> [items |-> 0]]
NoAttempt == [injected |-> FALSE, loaded |-> <<>>, before |-> <<>>, error |-> "",
              after |-> <<>>, nextEvents |-> <<>>]
NoCommit == [done |-> FALSE, before |-> <<>>, after |-> <<>>]

VARIABLES
  eventStreams,   \* MemoryEventStore.eventStreams: (name, id) -> array of events
  snapshots,      \* MemoryEventStore.snapshots: (name, id) -> snapshot
  inbox,          \* commands waiting to be passed to handleCommand
  nextRequest,    \* the least request id not yet past
  pc,             \* where each handleCommand call stands
  command,        \* handleCommand: the `command` argument of each call
  i,              \* handleCommand: the loop counter `i`
  snapshot,       \* handleCommand: `snapshot` of the current attempt
  nextEvents,     \* handleCommand: `nextEvents` of the current attempt
  error,          \* the error a finished call threw ("" when none)
  rejections,     \* for each coming save attempt, whether the event store rejects it
  dispatched,     \* batches passed to commandDispatcher.dispatch, in order
  delivered,      \* ids of the events already passed to handleEvent
  handled,        \* history: for each of them, what the handleEvent call did
  calls,          \* number of handleCommand calls started
  saveCalls,      \* history: Repository.save calls made by the current call
  loadCalls,      \* history: Repository.load calls made by the current call
  loadedStream,   \* history: the stream the latest Repository.load of the call read
  handlerCalls,   \* history: agent.handleCommand calls made by the current call
  first,          \* history: the first attempt of the current call: the
                  \* stream its load read, the stream before its save, what
                  \* saveEvents of the in-memory store answers to it and the
                  \* events it derived
  commit,         \* history: the stream before and after the successful save
  storeCalls,     \* number of direct event store calls made (SpecStore)
  storeLog        \* history: the last two direct event store calls

vars == <<eventStreams, snapshots, inbox, nextRequest, pc, command, i, snapshot,
          nextEvents, error, rejections, dispatched, delivered, handled, calls, saveCalls,
          loadCalls, loadedStream, handlerCalls, first, commit, storeCalls, storeLog>>

storeVars == <<eventStreams, snapshots>>
routerVars == <<inbox, nextRequest, pc, command, i, snapshot, nextEvents, error, rejections,
                dispatched, delivered, handled, calls, saveCalls, loadCalls, loadedStream, handlerCalls,
                first, commit>>

\* ------------------------------------------------------- message helpers
\* uuid5(name, namespace)
uuid5(name, namespace) == Append(namespace, name)

\* originateCommand that takes a fresh id whatever the request id
originateCommandWithFreshId(c, requestId) ==
  [type |-> c.type,
   id |-> <<0>>,
   payload |-> c.payload,
   causationId |-> Null,
   correlationId |-> requestId]

originateCommand(c, requestId) ==
  [type |-> c.type,
   id |-> requestId,
   payload |-> c.payload,
   causationId |-> Null,
   correlationId |-> requestId]

\* deriveCommand taking the causation from the event's own cause
deriveCommandCausedByGrandparent(event, c, index) ==
  [id |-> uuid5(index, event.id),
   type |-> c.type,
   payload |-> c.payload,
   causationId |-> event.causationId,
   correlationId |-> event.correlationId]

deriveCommand(event, c, index) ==
  [id |-> uuid5(index, event.id),
   type |-> c.type,
   payload |-> c.payload,
   causationId |-> event.id,
   correlationId |-> event.correlationId]

\* deriveEvent taking the id from the payload as well
deriveEventIdentifiedByPayload(c, event, index) ==
  [id |-> uuid5(<<index, event.payload.qty>>, c.id),
   type |-> event.type,
   payload |-> event.payload,
   causationId |-> c.causationId,
   correlationId |-> c.correlationId]

\* deriveEvent starting a new correlation at the command
deriveEventCorrelatedToCommand(c, event, index) ==
  [id |-> uuid5(index, c.id),
   type |-> event.type,
   payload |-> event.payload,
   causationId |-> c.causationId,
   correlationId |-> c.id]

deriveEvent(c, event, index) ==
  [id |-> uuid5(index, c.id),
   type |-> event.type,
   payload |-> event.payload,
   causationId |-> c.causationId,
   correlationId |-> c.correlationId]

deriveVersionedEvent(c, event, baseVersion, index) ==
  LET e == deriveEvent(c, event, index) IN
  [id |-> e.id,
   type |-> e.type,
   payload |-> e.payload,
   causationId |-> e.causationId,
   correlationId |-> e.correlationId,
   version |-> baseVersion + index]

\* ----------------------------------------------------------- event store
\* one map of streams and one of snapshots by id, whatever the name
KeyById(name, id) == <<"", id>>

\* the map of `name`, then the entry of `id`
Key(name, id) == <<name, id>>

\* loadEvents yielding the events from baseVersion on
loadEventsFromVersion(streams, name, id, baseVersion) ==
  IF Key(name, id) \notin DOMAIN streams THEN <<>>
  ELSE IF baseVersion = Undefined THEN streams[Key(name, id)]
  ELSE SelectSeq(streams[Key(name, id)], LAMBDA e : e.version >= baseVersion)

\* MemoryEventStore.loadEvents
loadEvents(streams, name, id, baseVersion) ==
  IF Key(name, id) \notin DOMAIN streams THEN <<>>
  ELSE IF baseVersion = Undefined THEN streams[Key(name, id)]
  ELSE SelectSeq(streams[Key(name, id)], LAMBDA e : e.version > baseVersion)

\* saveEvents creating the stream of (name, snapshot.id) before anything else
saveEventsCreatingStream(streams, name, snap, events) ==
  LET k == Key(name, snap.id)
      created == IF k \in DOMAIN streams THEN streams ELSE (k :> <<>>) @@ streams
  IN IF Len(created[k]) # 0 /\ created[k][Len(created[k])].version # snap.version
       THEN [error |-> "OptimisticLockError", eventStreams |-> created]
     ELSE [error |-> "", eventStreams |-> [created EXCEPT ![k] = @ \o events]]

\* saveEvents without the comparison of the last stored version
saveEventsUnchecked(streams, name, snap, events) ==
  LET k == Key(name, snap.id) IN
  IF Len(events) = 0 THEN [error |-> "", eventStreams |-> streams]
  ELSE IF k \notin DOMAIN streams
    THEN [error |-> "", eventStreams |-> (k :> events) @@ streams]
  ELSE [error |-> "", eventStreams |-> [streams EXCEPT ![k] = @ \o events]]

\* saveEvents that stores the new events in place of the stream
saveEventsReplacingStream(streams, name, snap, events) ==
  LET k == Key(name, snap.id) IN
  IF Len(events) = 0 THEN [error |-> "", eventStreams |-> streams]
  ELSE IF k \notin DOMAIN streams
    THEN [error |-> "", eventStreams |-> (k :> events) @@ streams]
  ELSE IF Len(streams[k]) # 0 /\ streams[k][Len(streams[k])].version # snap.version
    THEN [error |-> "OptimisticLockError", eventStreams |-> streams]
  ELSE [error |-> "", eventStreams |-> [streams EXCEPT ![k] = events]]

\* MemoryEventStore.saveEvents: the outcome and the streams it leaves
saveEvents(streams, name, snap, events) ==
  LET k == Key(name, snap.id) IN
  IF Len(events) = 0 THEN [error |-> "", eventStreams |-> streams]
  ELSE IF k \notin DOMAIN streams
    THEN [error |-> "", eventStreams |-> (k :> events) @@ streams]
  ELSE IF Len(streams[k]) # 0 /\ streams[k][Len(streams[k])].version # snap.version
    THEN [error |-> "OptimisticLockError", eventStreams |-> streams]
  ELSE [error |-> "", eventStreams |-> [streams EXCEPT ![k] = @ \o events]]

\* MemoryEventStore.exists
exists(streams, snaps, name, id) ==
  Key(name, id) \in DOMAIN streams \/ Key(name, id) \in DOMAIN snaps

\* MemoryEventStore.loadSnapshot: <<the stored snapshot>>, or <<>> for undefined
loadSnapshot(snaps, name, id) ==
  IF Key(name, id) \in DOMAIN snaps THEN <<snaps[Key(name, id)]>> ELSE <<>>

\* saveSnapshot without the comparison with the stored version
saveSnapshotUnchecked(snaps, name, snap) ==
  [error |-> "", snapshots |-> (Key(name, snap.id) :> snap) @@ snaps]

\* MemoryEventStore.saveSnapshot: the outcome and the snapshots it leaves
saveSnapshot(snaps, name, snap) ==
  LET k == Key(name, snap.id) IN
  IF k \in DOMAIN snaps /\ snaps[k].version > snap.version
    THEN [error |-> "OptimisticLockError", snapshots |-> snaps]
  ELSE [error |-> "", snapshots |-> (k :> snap) @@ snaps]

\* dropSnapshot without the comparison with the given version
dropSnapshotOfAnyVersion(snaps, name, id, version) ==
  [x \in DOMAIN snaps \ {Key(name, id)} |-> snaps[x]]

\* MemoryEventStore.dropSnapshot: the snapshots it leaves
dropSnapshot(snaps, name, id, version) ==
  LET k == Key(name, id) IN
  IF k \in DOMAIN snaps /\ snaps[k].version = version
    THEN [x \in DOMAIN snaps \ {k} |-> snaps[x]]
  ELSE snaps

\* ------------------------------------------------------ registered agents
\* the registerAggregate, registerProcessManager and registerEventListener
\* calls made before the first message, in call order
registrations ==
  <<[kind |-> "processManager",
     agent |-> [name |-> "Ledger", commandTypes |-> {"ADD_ITEM"}, eventType |-> "LEDGERED",
                adoptedEvents |-> {}]],
    [kind |-> "aggregate",
     agent |-> [name |-> "Cart", commandTypes |-> {"ADD_ITEM"}, eventType |-> "ITEM_ADDED"]],
    [kind |-> "processManager",
     agent |-> [name |-> "Saga", commandTypes |-> {"NOTE"}, eventType |-> "NOTED",
                adoptedEvents |-> {"ITEM_ADDED"}]],
    [kind |-> "eventListener",
     agent |-> [name |-> "Notifier", adoptedEvents |-> {"ITEM_ADDED"}]],
    [kind |-> "eventListener",
     agent |-> [name |-> "Auditor", adoptedEvents |-> {"ITEM_ADDED", "NOTED"}]]>>

\* the agents one of the three maps holds, in insertion order
Registered(kind) ==
  LET of == SelectSeq(registrations, LAMBDA r : r.kind = kind)
  IN [j \in 1..Len(of) |-> of[j].agent]

\* aggregateMap, processManagerMap, eventListenerMap in registration order
aggregateMap == Registered("aggregate")
processManagerMap == Registered("processManager")
eventListenerMap == Registered("eventListener")

\* the agents of type AgentType.SERVICE, in registration order
serviceAgents == <<[name |-> "Mailer", commandTypes |-> {"SEND"}, eventType |-> "SENT"]>>

\* the agents of type AgentType.MONITOR, in registration order
monitorAgents ==
  <<[name |-> "Telemetry", recognizedAlerts |-> {"LOW_STOCK", "OUTAGE"}],
    [name |-> "Pager", recognizedAlerts |-> {"OUTAGE"}]>>

NoAgent == [name |-> "", commandTypes |-> {}, eventType |-> ""]

\* agent.isSupportedCommand(command)
isSupportedCommand(agent, c) == c.type \in agent.commandTypes
\* an isAdoptedEvent that accepts every event
isAdoptedEventOfAnyType(agent, event) == event.type \in agent.adoptedEvents \cup {event.type}
\* agent.isAdoptedEvent(event)
isAdoptedEvent(agent, event) == event.type \in agent.adoptedEvents
\* an isRecognizedAlert that accepts every message
isRecognizedAlertOfAnyType(agent, alert) ==
  alert.type \in agent.recognizedAlerts \cup {alert.type}
\* agent.isRecognizedAlert(message)
isRecognizedAlert(agent, alert) == alert.type \in agent.recognizedAlerts
\* a getAggregateId that yields the same id for every message
getAggregateIdOfFirst(message) == "a1"
\* agent.getAggregateId(message)
getAggregateId(message) == message.payload.aggregateId
\* handler.createInitialState()
createInitialState == [items |-> 0]
\* a stored state that JavaScript treats as false (0, '', null, false)
FalsyState == [falsy |-> TRUE]
\* the truthiness `latestSnapshot?.state || ...` tests
Truthy(state) == state # FalsyState
\* agent.applyEvent(handler, event, state): the state it leaves
applyEvent(event, state) == [items |-> state.items + 1]

\* agent.handleCommand(handler, command, state): a pure command handler that
\* returns payload.qty events describing the state it saw
handleCommandOf(agent, c, state) ==
  [j \in 1..c.payload.qty |->
     [type |-> agent.eventType,
      payload |-> [aggregateId |-> c.payload.aggregateId, qty |-> state.items]]]

\* agent.handleCommand(handler, command) of a service: payload.qty events
serviceEvents(agent, c) ==
  [j \in 1..c.payload.qty |->
     [type |-> agent.eventType,
      payload |-> [aggregateId |-> c.payload.aggregateId, qty |-> j]]]

\* whether agent.handleCommand(handler, command, state) throws: the handler
\* of the Cart does for a command that adds nothing to a cart that holds
\* something
handlerRaises(agent, c, state) ==
  agent.name = "Cart" /\ c.payload.qty = 0 /\ state.items >= 1

\* the first entry of aggregateMap, then of processManagerMap, that supports
\* the command (the two `for` loops of handleCommand)
RECURSIVE FirstSupporting(_, _)
FirstSupporting(entries, c) ==
  IF entries = <<>> THEN NoAgent
  ELSE IF isSupportedCommand(Head(entries), c)
    THEN [name |-> Head(entries).name, commandTypes |-> Head(entries).commandTypes,
          eventType |-> Head(entries).eventType]
  ELSE FirstSupporting(Tail(entries), c)

\* a lookup that falls back to the first aggregate
AgentOfDefaulting(c) ==
  IF FirstSupporting(aggregateMap, c) # NoAgent THEN FirstSupporting(aggregateMap, c)
  ELSE IF FirstSupporting(processManagerMap, c) # NoAgent
    THEN FirstSupporting(processManagerMap, c)
  ELSE FirstSupporting(aggregateMap, [c EXCEPT !.type = "ADD_ITEM"])

AgentOf(c) ==
  IF FirstSupporting(aggregateMap, c) # NoAgent THEN FirstSupporting(aggregateMap, c)
  ELSE FirstSupporting(processManagerMap, c)

\* -------------------------------------------------------------- repository
RECURSIVE Replay(_, _)
\* the `for await` loop of Repository.load: state and version after the events
Replay(events, snap) ==
  IF events = <<>> THEN snap
  ELSE Replay(Tail(events),
              [id |-> snap.id, version |-> Head(events).version,
               state |-> applyEvent(Head(events), snap.state)])

\* Repository.load: `latestSnapshot?.state || handler.createInitialState()`
\* calls createInitialState unless a snapshot with a truthy state is stored
loadCreatesInitialState(snaps, name, id) ==
  ~(Key(name, id) \in DOMAIN snaps /\ Truthy(snaps[Key(name, id)].state))

\* a load that takes the state of the stored snapshot and counts versions
\* from 0
loadStartAtVersionZero(snaps, name, id) ==
  [id |-> id,
   version |-> 0,
   state |-> IF loadCreatesInitialState(snaps, name, id) THEN createInitialState
             ELSE snaps[Key(name, id)].state]

\* Repository.load: `snapshot` before the replay
loadStart(snaps, name, id) ==
  LET k == Key(name, id) IN
  [id |-> id,
   version |-> IF k \in DOMAIN snaps /\ snaps[k].version # 0 THEN snaps[k].version ELSE 0,
   state |-> IF loadCreatesInitialState(snaps, name, id) THEN createInitialState
             ELSE snaps[k].state]

\* Repository.load: the baseVersion passed to loadEvents, `latestSnapshot?.version`
loadBaseVersion(snaps, name, id) ==
  IF Key(name, id) \in DOMAIN snaps THEN snaps[Key(name, id)].version ELSE Undefined

\* load replaying the stream without its first event
loadSkippingFirstEvent(streams, snaps, name, id) ==
  LET events == loadEvents(streams, name, id, loadBaseVersion(snaps, name, id))
  IN Replay(IF events = <<>> THEN <<>> ELSE Tail(events), loadStart(snaps, name, id))

\* Repository.load: the snapshot it returns
load(streams, snaps, name, id) ==
  Replay(loadEvents(streams, name, id, loadBaseVersion(snaps, name, id)),
         loadStart(snaps, name, id))

\* Repository.load: the stored snapshots after the call.  The returned
\* snapshot shares its state object with the stored snapshot when that state
\* is truthy, and applyEvent updates that object in place.
snapshotsAfterLoad(streams, snaps, name, id) ==
  IF ~loadCreatesInitialState(snaps, name, id)
    THEN [snaps EXCEPT ![Key(name, id)].state = load(streams, snaps, name, id).state]
  ELSE snaps

\* Repository.save when it tries the event store once more after an
\* OptimisticLockError
saveRetrying(streams, name, snap, events) ==
  LET call == [name |-> name, snapshot |-> snap, events |-> events]
      r == saveEvents(streams, name, snap, events)
  IN [error |-> r.error, eventStreams |-> r.eventStreams,
      saveEventsCalls |-> IF r.error = "" THEN <<call>> ELSE <<call, call>>]

\* Repository.save(agent, snapshot, events) for an agent of that name: the
\* outcome it hands to its caller and the eventStore.saveEvents calls it made
save(streams, name, snap, events) ==
  LET r == saveEvents(streams, name, snap, events)
  IN [error |-> r.error, eventStreams |-> r.eventStreams,
      saveEventsCalls |-> <<[name |-> name, snapshot |-> snap, events |-> events]>>]

\* ------------------------------------------------------------------ router
\* the stream of the aggregate a handleCommand call works on
StreamKey(p) == Key(AgentOf(command[p]).name, getAggregateId(command[p]))
StreamOf(k) == IF k \in DOMAIN eventStreams THEN eventStreams[k] ELSE <<>>

\* handleCommand: `events`, what the command handler returns for the snapshot
Events(p) == handleCommandOf(AgentOf(command[p]), command[p], snapshot[p].state)

\* nextEvents with the derivation index shifted by the attempt number
NextEventsIndexedByAttempt(p) ==
  [j \in 1..Len(Events(p)) |->
     deriveVersionedEvent(command[p], Events(p)[j], snapshot[p].version, j - 1 + i[p])]

\* a loop that keeps the events its first attempt derived for every retry
NextEventsOfFirstAttempt(p) ==
  IF saveCalls[p] >= 1 THEN first[p].nextEvents
  ELSE [j \in 1..Len(Events(p)) |->
          deriveVersionedEvent(command[p], Events(p)[j], snapshot[p].version, j - 1)]

\* handleCommand: `nextEvents`, the handler's events derived from the command
NextEvents(p) ==
  [j \in 1..Len(Events(p)) |->
     deriveVersionedEvent(command[p], Events(p)[j], snapshot[p].version, j - 1)]

\* a router that takes a handler that throws for one that returns nothing
RaisesIgnored(p) == FALSE

\* handleCommand: whether `aggregate.handleCommand(handler, command,
\* snapshot.state)` throws
Raises(p) == handlerRaises(AgentOf(command[p]), command[p], snapshot[p].state)

\* the events a service's handler returns for a command, derived from it
ServiceEvents(c) ==
  LET events == serviceEvents(FirstSupporting(serviceAgents, c), c)
  IN [j \in 1..Len(events) |-> deriveEvent(c, events[j], j - 1)]

\* a catch block that retries while `i <= 5`
MayRetryOnceMore(p) == i[p] <= RetryLimit

\* a catch block that retries after every OptimisticLockError
MayRetryAlways(p) == TRUE

\* handleCommand: the catch block retries while `i < 5`
MayRetry(p) == i[p] < RetryLimit

\* what external systems send, by request id: commands for the Cart aggregate,
\* one of them sent twice, a command for the Saga process manager and a
\* command that no registered agent supports
Requests ==
  [n \in 1..(MaxQty + 1) |->
     [type |-> "ADD_ITEM", payload |-> [aggregateId |-> "a1", qty |-> n - 1]]]
  \o <<[type |-> "ADD_ITEM", payload |-> [aggregateId |-> "a1", qty |-> 1]],
       [type |-> "ADD_ITEM", payload |-> [aggregateId |-> "a2", qty |-> 1]],
       [type |-> "NOTE", payload |-> [aggregateId |-> "a1", qty |-> 1]],
       [type |-> "PING", payload |-> [aggregateId |-> "a1", qty |-> 0]]>>

\* the same, a command for the Mailer service and a command the Saga answers
\* with no events
RoutedRequests ==
  Requests \o <<[type |-> "SEND", payload |-> [aggregateId |-> "a1", qty |-> 1]],
               [type |-> "NOTE", payload |-> [aggregateId |-> "a1", qty |-> 0]]>>

\* the save attempts the event store rejects: none, the first one, the second
\* one, or more than one call will make
Rejections ==
  {<<>>, <<TRUE>>, <<FALSE, TRUE>>, [j \in 1..MaxRejected |-> TRUE]}

Init ==
  /\ eventStreams = <<>>
  /\ snapshots = <<>>
  /\ inbox = {}
  /\ nextRequest = 1
  /\ pc = [p \in Procs |-> "idle"]
  /\ command = [p \in Procs |-> NoCommand]
  /\ i = [p \in Procs |-> 0]
  /\ snapshot = [p \in Procs |-> NoSnapshot]
  /\ nextEvents = [p \in Procs |-> <<>>]
  /\ error = [p \in Procs |-> ""]
  /\ rejections \in Rejections
  /\ dispatched = <<>>
  /\ delivered = {}
  /\ handled = <<>>
  /\ calls = 0
  /\ saveCalls = [p \in Procs |-> 0]
  /\ loadCalls = [p \in Procs |-> 0]
  /\ loadedStream = [p \in Procs |-> <<>>]
  /\ handlerCalls = [p \in Procs |-> 0]
  /\ first = [p \in Procs |-> NoAttempt]
  /\ commit = [p \in Procs |-> NoCommit]
  /\ storeCalls = 0
  /\ storeLog = <<>>

\* A command arrives from an external system: originateCommand(command, requestId).
\* originateCommand touches neither the router nor the store, so the external
\* commands are all originated before the first handleCommand call.
Originate(requestId) ==
  /\ Cardinality(inbox) < MaxRequests
  /\ calls = 0
  /\ requestId >= nextRequest
  /\ inbox' = inbox \cup {originateCommand(RoutedRequests[requestId], <<requestId>>)}
  /\ nextRequest' = requestId + 1
  /\ UNCHANGED <<storeVars, pc, command, i, snapshot, nextEvents, error, rejections,
                 dispatched, delivered, handled, calls, saveCalls, loadCalls, loadedStream, handlerCalls, first,
                 commit, storeCalls, storeLog>>

\* handleCommand(command) up to the first `await`: the agent lookup, the
\* UnhandledCommandError, the start of the loop
StartCommand(p, c) ==
  /\ pc[p] \in {"idle", "done", "failed"}
  /\ \A q \in Procs : q < p => pc[q] \in {"load", "loaded"}
  /\ calls < MaxCalls
  /\ c \in inbox
  /\ FirstSupporting(serviceAgents, c) = NoAgent
  /\ inbox' = inbox \ {c}
  /\ calls' = calls + 1
  /\ command' = [command EXCEPT ![p] = c]
  /\ i' = [i EXCEPT ![p] = 0]
  /\ snapshot' = [snapshot EXCEPT ![p] = NoSnapshot]
  /\ nextEvents' = [nextEvents EXCEPT ![p] = <<>>]
  /\ saveCalls' = [saveCalls EXCEPT ![p] = 0]
  /\ loadCalls' = [loadCalls EXCEPT ![p] = 0]
  /\ loadedStream' = [loadedStream EXCEPT ![p] = <<>>]
  /\ handlerCalls' = [handlerCalls EXCEPT ![p] = 0]
  /\ first' = [first EXCEPT ![p] = NoAttempt]
  /\ commit' = [commit EXCEPT ![p] = NoCommit]
  /\ IF AgentOf(c) = NoAgent
       THEN /\ pc' = [pc EXCEPT ![p] = "failed"]
            /\ error' = [error EXCEPT ![p] = "UnhandledCommandError"]
       ELSE /\ pc' = [pc EXCEPT ![p] = "load"]
            /\ error' = [error EXCEPT ![p] = ""]
  /\ UNCHANGED <<storeVars, nextRequest, rejections, dispatched, delivered, handled, storeCalls,
                 storeLog>>

\* handleCommand(command) for a command a service supports: the handler is
\* called, its events are derived and the call returns
HandleServiceCommand(p, c) ==
  /\ pc[p] \in {"idle", "done", "failed"}
  /\ \A q \in Procs : q < p => pc[q] \in {"load", "loaded"}
  /\ calls < MaxCalls
  /\ c \in inbox
  /\ FirstSupporting(serviceAgents, c) # NoAgent
  /\ inbox' = inbox \ {c}
  /\ calls' = calls + 1
  /\ command' = [command EXCEPT ![p] = c]
  /\ i' = [i EXCEPT ![p] = 0]
  /\ snapshot' = [snapshot EXCEPT ![p] = NoSnapshot]
  /\ nextEvents' = [nextEvents EXCEPT ![p] = ServiceEvents(c)]
  /\ saveCalls' = [saveCalls EXCEPT ![p] = 0]
  /\ loadCalls' = [loadCalls EXCEPT ![p] = 0]
  /\ loadedStream' = [loadedStream EXCEPT ![p] = <<>>]
  /\ handlerCalls' = [handlerCalls EXCEPT ![p] = 1]
  /\ first' = [first EXCEPT ![p] = NoAttempt]
  /\ commit' = [commit EXCEPT ![p] = NoCommit]
  /\ pc' = [pc EXCEPT ![p] = "done"]
  /\ error' = [error EXCEPT ![p] = ""]
  /\ UNCHANGED <<storeVars, nextRequest, rejections, dispatched, delivered, handled,
                 storeCalls, storeLog>>

\* `await repository.load(aggregate, handler, aggregate.getAggregateId(command))`
Load(p) ==
  /\ pc[p] = "load"
  /\ loadCalls[p] < MaxLoads
  /\ snapshot' = [snapshot EXCEPT ![p] =
       load(eventStreams, snapshots, AgentOf(command[p]).name, getAggregateId(command[p]))]
  /\ snapshots' = snapshotsAfterLoad(eventStreams, snapshots, AgentOf(command[p]).name,
                                     getAggregateId(command[p]))
  /\ pc' = [pc EXCEPT ![p] = "loaded"]
  /\ nextEvents' = [nextEvents EXCEPT ![p] = <<>>]
  /\ first' = [first EXCEPT ![p].loaded = IF i[p] = 0 THEN StreamOf(StreamKey(p)) ELSE @]
  /\ loadCalls' = [loadCalls EXCEPT ![p] = @ + 1]
  /\ loadedStream' = [loadedStream EXCEPT ![p] = StreamOf(StreamKey(p))]
  /\ UNCHANGED <<eventStreams, inbox, nextRequest, command, i, error,
                 rejections, dispatched, delivered, handled, calls, saveCalls, handlerCalls, commit,
                 storeCalls, storeLog>>

\* the rest of one loop iteration once repository.save has settled with the
\* outcome r: return, retry or rethrow
Settle(p, r, injected) ==
  /\ nextEvents' = [nextEvents EXCEPT ![p] = NextEvents(p)]
  /\ eventStreams' = r.eventStreams
  /\ saveCalls' = [saveCalls EXCEPT ![p] = @ + 1]
  /\ handlerCalls' = [handlerCalls EXCEPT ![p] = @ + 1]
  /\ first' = [first EXCEPT ![p] =
       IF saveCalls[p] = 0
         THEN LET real == saveEvents(eventStreams, AgentOf(command[p]).name, snapshot[p],
                                     NextEvents(p))
              IN [injected |-> injected,
                  loaded |-> first[p].loaded,
                  before |-> StreamOf(StreamKey(p)),
                  error |-> real.error,
                  after |-> IF StreamKey(p) \in DOMAIN real.eventStreams
                              THEN real.eventStreams[StreamKey(p)] ELSE <<>>,
                  nextEvents |-> NextEvents(p)]
         ELSE @]
  /\ commit' = [commit EXCEPT ![p] =
       IF r.error = ""
         THEN [done |-> TRUE, before |-> StreamOf(StreamKey(p)),
               after |-> r.eventStreams[StreamKey(p)]]
         ELSE @]
  /\ IF r.error = ""
       THEN /\ pc' = [pc EXCEPT ![p] = "done"]
            /\ UNCHANGED <<i, error>>
       ELSE IF r.error = "OptimisticLockError" /\ MayRetry(p)
         THEN /\ pc' = [pc EXCEPT ![p] = "load"]
              /\ i' = [i EXCEPT ![p] = @ + 1]
              /\ UNCHANGED error
         ELSE /\ pc' = [pc EXCEPT ![p] = "failed"]
              /\ error' = [error EXCEPT ![p] = r.error]
              /\ UNCHANGED i
  /\ rejections' = IF rejections = <<>> THEN <<>> ELSE Tail(rejections)
  /\ UNCHANGED <<snapshots, inbox, nextRequest, command, snapshot, dispatched,
                 delivered, handled, calls, loadCalls, loadedStream, storeCalls, storeLog>>

\* handleCommand after the load: the handler returned no events
HandleNothing(p) ==
  /\ pc[p] = "loaded"
  /\ ~Raises(p)
  /\ Events(p) = <<>>
  /\ pc' = [pc EXCEPT ![p] = "done"]
  /\ handlerCalls' = [handlerCalls EXCEPT ![p] = @ + 1]
  /\ UNCHANGED <<storeVars, inbox, nextRequest, command, i, snapshot, nextEvents, error,
                 rejections, dispatched, delivered, handled, calls, saveCalls, loadCalls, loadedStream, first,
                 commit, storeCalls, storeLog>>

\* handleCommand after the load: the handler throws, outside the `try`, and
\* the call rejects with what it threw
HandleRaises(p) ==
  /\ pc[p] = "loaded"
  /\ Raises(p)
  /\ pc' = [pc EXCEPT ![p] = "failed"]
  /\ error' = [error EXCEPT ![p] = "HandlerError"]
  /\ handlerCalls' = [handlerCalls EXCEPT ![p] = @ + 1]
  /\ UNCHANGED <<storeVars, inbox, nextRequest, command, i, snapshot, nextEvents,
                 rejections, dispatched, delivered, handled, calls, saveCalls, loadCalls, loadedStream,
                 first, commit, storeCalls, storeLog>>

\* whether the event store rejects the coming save attempt
Rejecting == IF rejections = <<>> THEN FALSE ELSE Head(rejections)

\* handleCommand after the load: handler, derivation and repository.save on
\* the in-memory event store
HandleAndSave(p) ==
  /\ pc[p] = "loaded"
  /\ ~Raises(p)
  /\ Events(p) # <<>>
  /\ ~Rejecting
  /\ Settle(p, save(eventStreams, AgentOf(command[p]).name, snapshot[p],
                    NextEvents(p)), FALSE)

\* the same step against an event store whose saveEvents rejects the call
\* with OptimisticLockError and stores nothing
HandleAndSaveRejected(p) ==
  /\ pc[p] = "loaded"
  /\ ~Raises(p)
  /\ Events(p) # <<>>
  /\ Rejecting
  /\ Settle(p, [error |-> "OptimisticLockError", eventStreams |-> eventStreams], TRUE)

\* ------------------------------------------------------------ handleEvent
\* eventListener.handleAdoptedEvent(handler, event): the Notifier returns one
\* command, the Auditor two for a NOTED event and nothing otherwise
listenerCommands(agent, event) ==
  IF agent.name = "Notifier"
    THEN <<[type |-> "NOTE", payload |-> [aggregateId |-> getAggregateId(event), qty |-> 1]]>>
  ELSE IF event.type = "NOTED"
    THEN <<[type |-> "NOTE", payload |-> [aggregateId |-> getAggregateId(event), qty |-> 0]],
           [type |-> "ADD_ITEM", payload |-> [aggregateId |-> getAggregateId(event), qty |-> 0]]>>
  ELSE <<>>

\* whether eventListener.handleAdoptedEvent(handler, event) throws: the
\* Auditor's handler does for an item added to a cart that held one
listenerRaises(agent, event) ==
  agent.name = "Auditor" /\ event.type = "ITEM_ADDED" /\ event.payload.qty >= 1

\* processManager.handleAdoptedEvent(handler, event, state); <<>> stands for
\* a handler that returns nothing
processManagerCommands(event, state) ==
  IF state.items = 0
    THEN <<[type |-> "NOTE", payload |-> [aggregateId |-> getAggregateId(event), qty |-> 2]]>>
    ELSE <<>>

RECURSIVE FromListeners(_, _)
\* the loop over eventListenerMap
FromListeners(entries, event) ==
  IF entries = <<>> THEN <<>>
  ELSE (IF isAdoptedEvent(Head(entries), event)
          THEN listenerCommands(Head(entries), event) ELSE <<>>)
       \o FromListeners(Tail(entries), event)

RECURSIVE FromProcessManagers(_, _)
\* the loop over processManagerMap, each with its repository.load
FromProcessManagers(entries, event) ==
  IF entries = <<>> THEN <<>>
  ELSE (IF isAdoptedEvent(Head(entries), event)
          THEN processManagerCommands(event,
                 load(eventStreams, snapshots, Head(entries).name,
                      getAggregateId(event)).state)
          ELSE <<>>)
       \o FromProcessManagers(Tail(entries), event)

RECURSIVE SnapshotsAfterLoads(_, _, _)
\* the stored snapshots after the loads of the loop over processManagerMap
SnapshotsAfterLoads(entries, event, snaps) ==
  IF entries = <<>> THEN snaps
  ELSE SnapshotsAfterLoads(Tail(entries), event,
         IF isAdoptedEvent(Head(entries), event)
           THEN snapshotsAfterLoad(eventStreams, snaps, Head(entries).name,
                                   getAggregateId(event))
           ELSE snaps)

\* handleEvent: `allCommands`
AllCommands(event) ==
  FromListeners(eventListenerMap, event) \o FromProcessManagers(processManagerMap, event)

\* handleEvent: `nextCommands`
NextCommands(event) ==
  [j \in 1..Len(AllCommands(event)) |-> deriveCommand(event, AllCommands(event)[j], j - 1)]

RECURSIVE InvokedListeners(_, _)
\* the loop over eventListenerMap: the listeners whose handleAdoptedEvent is
\* called, in call order, the last of them the one that throws, if one does
InvokedListeners(entries, event) ==
  IF entries = <<>> THEN <<>>
  ELSE IF ~isAdoptedEvent(Head(entries), event) THEN InvokedListeners(Tail(entries), event)
  ELSE IF listenerRaises(Head(entries), event) THEN <<Head(entries).name>>
  ELSE <<Head(entries).name>> \o InvokedListeners(Tail(entries), event)

\* whether handleAdoptedEvent of some listener throws in handleEvent(event)
EventRaises(event) ==
  \E j \in DOMAIN eventListenerMap :
    isAdoptedEvent(eventListenerMap[j], event) /\ listenerRaises(eventListenerMap[j], event)

\* the loop over processManagerMap: the process managers whose
\* handleAdoptedEvent is called, in call order
InvokedProcessManagers(event) ==
  LET of == SelectSeq(processManagerMap, LAMBDA agent : isAdoptedEvent(agent, event))
  IN [j \in 1..Len(of) |-> of[j].name]

\* what the handler of each agent that handleEvent(event) calls returns
Returned(event) ==
  [name \in {eventListenerMap[j].name : j \in DOMAIN eventListenerMap}
           \cup {processManagerMap[j].name : j \in DOMAIN processManagerMap} |->
     IF \E j \in DOMAIN eventListenerMap : eventListenerMap[j].name = name
       THEN FromListeners(SelectSeq(eventListenerMap, LAMBDA agent : agent.name = name), event)
       ELSE FromProcessManagers(SelectSeq(processManagerMap, LAMBDA agent : agent.name = name),
                                event)]

StoredEvents ==
  UNION {{eventStreams[k][j] : j \in 1..Len(eventStreams[k])} : k \in DOMAIN eventStreams}

\* handleEvent(event) for a stored event the event bus delivers.  A dispatched
\* batch is recorded with the id of the event it was derived from.
HandleEvent(event) ==
  /\ Cardinality(delivered) < MaxEventCalls
  /\ event.id \notin delivered
  /\ event \in StoredEvents
  /\ ~EventRaises(event)
  /\ delivered' = delivered \cup {event.id}
  /\ handled' = handled @@ (event.id :>
       [event |-> event,
        invoked |-> InvokedListeners(eventListenerMap, event) \o InvokedProcessManagers(event),
        returned |-> Returned(event),
        error |-> "",
        batches |-> IF AllCommands(event) = <<>> THEN <<>> ELSE <<NextCommands(event)>>])
  /\ snapshots' = SnapshotsAfterLoads(processManagerMap, event, snapshots)
  /\ IF AllCommands(event) = <<>>
       THEN UNCHANGED <<dispatched, inbox>>
       ELSE /\ dispatched' = Append(dispatched,
                 [cause |-> event.id, messages |-> NextCommands(event)])
            /\ inbox' = inbox \cup
                 {NextCommands(event)[j] : j \in 1..Len(NextCommands(event))}
  /\ UNCHANGED <<eventStreams, nextRequest, pc, command, i, snapshot, nextEvents, error,
                 rejections, calls, saveCalls, loadCalls, loadedStream, handlerCalls, first, commit,
                 storeCalls, storeLog>>

\* handleEvent(event) when handleAdoptedEvent of a listener throws: the loop
\* over eventListenerMap ends there and the call rejects
HandleEventRaises(event) ==
  /\ Cardinality(delivered) < MaxEventCalls
  /\ event.id \notin delivered
  /\ event \in StoredEvents
  /\ EventRaises(event)
  /\ delivered' = delivered \cup {event.id}
  /\ handled' = handled @@ (event.id :>
       [event |-> event,
        invoked |-> InvokedListeners(eventListenerMap, event),
        returned |-> Returned(event),
        error |-> "HandlerError",
        batches |-> <<>>])
  /\ UNCHANGED <<storeVars, inbox, nextRequest, pc, command, i, snapshot, nextEvents, error,
                 rejections, dispatched, calls, saveCalls, loadCalls, loadedStream, handlerCalls, first,
                 commit, storeCalls, storeLog>>

Next ==
  \/ \E requestId \in DOMAIN Requests : Originate(requestId)
  \/ \E p \in Procs : \E c \in inbox : StartCommand(p, c)
  \/ \E p \in Procs : Load(p)
  \/ \E p \in Procs : HandleNothing(p)
  \/ \E p \in Procs : HandleRaises(p)
  \/ \E p \in Procs : HandleAndSave(p)
  \/ \E p \in Procs : HandleAndSaveRejected(p)
  \/ \E event \in StoredEvents : HandleEvent(event)
  \/ \E event \in StoredEvents : HandleEventRaises(event)

Spec == Init /\ [][Next]_vars

\* ------------------------------------------- the router with a service
\* the three kinds of agents and a service, on an event store that rejects
\* no save of its own accord
InitRouting == Init /\ rejections = <<>>

NextRouting ==
  \/ \E requestId \in DOMAIN RoutedRequests : Originate(requestId)
  \/ \E p \in Procs : \E c \in inbox : StartCommand(p, c)
  \/ \E p \in Procs : \E c \in inbox : HandleServiceCommand(p, c)
  \/ \E p \in Procs : Load(p)
  \/ \E p \in Procs : HandleNothing(p)
  \/ \E p \in Procs : HandleRaises(p)
  \/ \E p \in Procs : HandleAndSave(p)
  \/ \E event \in StoredEvents : HandleEvent(event)
  \/ \E event \in StoredEvents : HandleEventRaises(event)

SpecRouting == InitRouting /\ [][NextRouting]_vars

\* ------------------------------------------------- direct event store calls
\* the (name, id) pairs the event store is called with
StoreNames == {"abc"}
StoreIds == {"123", "xyz"}

\* mockEvent({id, version})
mockEvent(id, version) ==
  [id |-> id, type |-> "", payload |-> [aggregateId |-> "", qty |-> 0],
   causationId |-> Null, correlationId |-> Null, version |-> version]

\* the last two entries of a log
LastTwo(log) == IF Len(log) > 2 THEN SubSeq(log, Len(log) - 1, Len(log)) ELSE log

\* eventStore.saveEvents(name, {id, version, state}, events) called directly,
\* with n events versioned from..from+n-1
CallSaveEvents(name, id, version, n, from) ==
  LET snap == [id |-> id, version |-> version, state |-> createInitialState]
      events == [j \in 1..n |-> mockEvent(<<0, j>>, from + j - 1)]
      r == saveEvents(eventStreams, name, snap, events)
  IN /\ storeCalls < MaxStoreCalls
     /\ storeCalls' = storeCalls + 1
     /\ eventStreams' = r.eventStreams
     /\ storeLog' = LastTwo(Append(storeLog,
          [op |-> "saveEvents",
           key |-> Key(name, id),
           version |-> version,
           events |-> events,
           error |-> r.error,
           before |-> StreamOf(Key(name, id))]))
     /\ UNCHANGED <<snapshots, routerVars>>

NextStore ==
  \E name \in StoreNames, id \in StoreIds, version \in 0..MaxVersion, n \in 0..MaxBatch :
    \E from \in {0, version + 1} :
      CallSaveEvents(name, id, version, n, from)

\* an event store that rejects nothing of its own accord
InitStore == Init /\ rejections = <<>>

SpecStore == InitStore /\ [][NextStore]_vars

\* --------------------------------- direct calls of every store operation
\* the (name, id) pairs: two names with one id, two ids with one name
OpKeys == {<<"abc", "123">>, <<"Bar", "123">>, <<"abc", "xyz">>}
\* the states of the snapshots given to saveSnapshot
SnapshotStates == {createInitialState, applyEvent(mockEvent(<<0, 1>>, 1), createInitialState),
                   FalsyState}

\* what every record of a direct call holds: the operation, its key and the
\* store before the call
CallRecord(op, k) ==
  [op |-> op, key |-> k, streams |-> eventStreams, snaps |-> snapshots]

\* one more direct call, of which `entry` is the record, in a run of at most
\* `most` calls
Called(entry, most) ==
  /\ storeCalls < most
  /\ storeCalls' = storeCalls + 1
  /\ storeLog' = <<entry>>
  /\ UNCHANGED routerVars

\* eventStore.saveEvents(name, {id, version, state}, events) with n events
\* versioned version+1..version+n
CallAppendEvents(k, version, n, most) ==
  LET snap == [id |-> k[2], version |-> version, state |-> createInitialState]
      events == [j \in 1..n |-> mockEvent(<<0, j>>, version + j)]
      r == saveEvents(eventStreams, k[1], snap, events)
  IN /\ eventStreams' = r.eventStreams
     /\ UNCHANGED snapshots
     /\ Called(CallRecord("saveEvents", k) @@
               [version |-> version, events |-> events, error |-> r.error], most)

\* eventStore.saveSnapshot(name, {id, version, state})
CallSaveSnapshot(k, version, state, most) ==
  LET snap == [id |-> k[2], version |-> version, state |-> state]
      r == saveSnapshot(snapshots, k[1], snap)
  IN /\ snapshots' = r.snapshots
     /\ UNCHANGED eventStreams
     /\ Called(CallRecord("saveSnapshot", k) @@ [snapshot |-> snap, error |-> r.error], most)

\* eventStore.dropSnapshot(name, id, version)
CallDropSnapshot(k, version) ==
  /\ snapshots' = dropSnapshot(snapshots, k[1], k[2], version)
  /\ UNCHANGED eventStreams
  /\ Called(CallRecord("dropSnapshot", k) @@ [version |-> version], MaxOpCalls)

\* collect(eventStore.loadEvents(name, id, baseVersion))
CallLoadEvents(k, baseVersion) ==
  /\ UNCHANGED storeVars
  /\ Called(CallRecord("loadEvents", k) @@
            [baseVersion |-> baseVersion,
             result |-> loadEvents(eventStreams, k[1], k[2], baseVersion)], MaxOpCalls)

\* eventStore.exists(name, id)
CallExists(k) ==
  /\ UNCHANGED storeVars
  /\ Called(CallRecord("exists", k) @@
            [result |-> exists(eventStreams, snapshots, k[1], k[2])], MaxOpCalls)

\* repository.load(agent, handler, id) for an agent of that name, with the
\* calls it made: createInitialState or not, the baseVersion it asked
\* loadEvents for, the snapshot it started from, the events it applied
CallLoad(k) ==
  /\ snapshots' = snapshotsAfterLoad(eventStreams, snapshots, k[1], k[2])
  /\ UNCHANGED eventStreams
  /\ Called(CallRecord("load", k) @@
            [created |-> loadCreatesInitialState(snapshots, k[1], k[2]),
             baseVersion |-> loadBaseVersion(snapshots, k[1], k[2]),
             start |-> loadStart(snapshots, k[1], k[2]),
             applied |-> loadEvents(eventStreams, k[1], k[2],
                                    loadBaseVersion(snapshots, k[1], k[2])),
             result |-> load(eventStreams, snapshots, k[1], k[2])], MaxStoreCalls)

NextOps ==
  \/ \E k \in OpKeys, version \in 0..MaxVersion, n \in 0..MaxBatch :
       CallAppendEvents(k, version, n, MaxOpCalls)
  \/ \E k \in OpKeys, version \in 0..MaxVersion, state \in SnapshotStates :
       CallSaveSnapshot(k, version, state, MaxOpCalls)
  \/ \E k \in OpKeys, version \in 0..MaxVersion : CallDropSnapshot(k, version)
  \/ \E k \in OpKeys, baseVersion \in {Undefined} \cup 0..MaxVersion :
       CallLoadEvents(k, baseVersion)
  \/ \E k \in OpKeys : CallExists(k)

SpecOps == InitStore /\ [][NextOps]_vars

\* ------------------------------------- direct calls of Repository.load
\* the aggregate that is written and loaded
LoadKey == <<"abc", "123">>

\* repository.save(agent, {id, version, state}, events) for an agent of that
\* name, with n events versioned version+1..version+n
CallSave(k, version, n) ==
  LET snap == [id |-> k[2], version |-> version, state |-> createInitialState]
      events == [j \in 1..n |-> mockEvent(<<0, j>>, version + j)]
      r == save(eventStreams, k[1], snap, events)
  IN /\ eventStreams' = r.eventStreams
     /\ UNCHANGED snapshots
     /\ Called(CallRecord("save", k) @@
               [snapshot |-> snap, events |-> events, error |-> r.error,
                saveEventsCalls |-> r.saveEventsCalls], MaxStoreCalls)

\* repository.load(agent, handler, id), then repository.save(agent, snapshot,
\* events) of n events derived, as handleCommand derives them, from the
\* snapshot the load returned, with no other call in between
CallLoadThenSave(k, n) ==
  LET loaded == load(eventStreams, snapshots, k[1], k[2])
      c == originateCommand(Requests[2], <<1>>)
      events == [j \in 1..n |->
                   deriveVersionedEvent(c, mockEvent(<<>>, 0), loaded.version, j - 1)]
      r == save(eventStreams, k[1], loaded, events)
  IN /\ snapshots' = snapshotsAfterLoad(eventStreams, snapshots, k[1], k[2])
     /\ eventStreams' = r.eventStreams
     /\ Called(CallRecord("loadThenSave", k) @@
               [loaded |-> loaded, events |-> events, error |-> r.error], MaxStoreCalls)

NextLoad ==
  \/ \E version \in 0..MaxVersion, n \in 0..MaxBatch : CallSave(LoadKey, version, n)
  \/ \E version \in 0..MaxVersion, state \in SnapshotStates :
       CallSaveSnapshot(LoadKey, version, state, MaxStoreCalls)
  \/ CallLoad(LoadKey)
  \/ \E n \in 1..MaxBatch : CallLoadThenSave(LoadKey, n)

SpecLoad == InitStore /\ [][NextLoad]_vars

\* ------------------------------------------- the router and one cart only
\* the commands for the cart a1, the one sent twice included
CartRequestIds == 1..(MaxQty + 2)

NextRetry ==
  \/ \E requestId \in CartRequestIds : Originate(requestId)
  \/ \E p \in Procs : \E c \in inbox : StartCommand(p, c)
  \/ \E p \in Procs : Load(p)
  \/ \E p \in Procs : HandleNothing(p)
  \/ \E p \in Procs : HandleRaises(p)
  \/ \E p \in Procs : HandleAndSave(p)
  \/ \E p \in Procs : HandleAndSaveRejected(p)
  \/ \E event \in StoredEvents : HandleEvent(event)
  \/ \E event \in StoredEvents : HandleEventRaises(event)

SpecRetry == Init /\ [][NextRetry]_vars

\* ------------------------------------- handleCommand calls that are run on
\* what one handleCommand call does next: every step is the continuation of
\* an awaited promise, which the event loop runs once the promise settles
Step(p) ==
  \/ Load(p)
  \/ HandleNothing(p)
  \/ HandleRaises(p)
  \/ HandleAndSave(p)
  \/ HandleAndSaveRejected(p)

\* the commands for the cart a1, each sent once
NextCalls ==
  \/ \E requestId \in 1..(MaxQty + 1) : Originate(requestId)
  \/ \E p \in Procs : \E c \in inbox : StartCommand(p, c)
  \/ \E p \in Procs : Load(p)
  \/ \E p \in Procs : HandleNothing(p)
  \/ \E p \in Procs : HandleRaises(p)
  \/ \E p \in Procs : HandleAndSave(p)
  \/ \E p \in Procs : HandleAndSaveRejected(p)

\* the event loop leaves no call that can go on waiting forever
SpecCalls == Init /\ [][NextCalls]_vars /\ \A p \in Procs : WF_vars(Step(p))

\* ------------------------------- the router over a store with snapshots
\* the process manager instance whose stream and snapshot are written before
\* the router starts
SagaKey == <<"Saga", "a1">>

\* the requests routed then: one item added to the cart a1, and the command
\* the Saga answers with no events
SnapshotRequestIds == {2, Len(RoutedRequests)}

\* repository.save of n events to the stream of the Saga, before the router
\* starts
SeedEvents(n) ==
  /\ calls = 0
  /\ inbox = {}
  /\ CallSave(SagaKey, 0, n)

\* eventStore.saveSnapshot of the initial state of the Saga at version 0,
\* before the router starts
SeedSnapshot ==
  /\ calls = 0
  /\ inbox = {}
  /\ CallSaveSnapshot(SagaKey, 0, createInitialState, MaxStoreCalls)

\* no handler throws for these requests
NextSnapshots ==
  \/ \E n \in 1..MaxBatch : SeedEvents(n)
  \/ SeedSnapshot
  \/ \E requestId \in SnapshotRequestIds : Originate(requestId)
  \/ \E p \in Procs : \E c \in inbox : StartCommand(p, c)
  \/ \E p \in Procs : Load(p)
  \/ \E p \in Procs : HandleNothing(p)
  \/ \E p \in Procs : HandleAndSave(p)
  \/ \E event \in StoredEvents : HandleEvent(event)

SpecSnapshots == InitRouting /\ [][NextSnapshots]_vars

\* ------------------------------------------------- calls of handleAlert
\* the alerts passed to handleAlert: derived from an originated command,
\* recognized by both monitors, by one and by none
Alerts ==
  {deriveEvent(originateCommand(Requests[1], <<1>>),
               [type |-> type, payload |-> [aggregateId |-> "123", qty |-> 0]], 0) :
     type \in {"LOW_STOCK", "OUTAGE", "NOISE"}}

\* handleAlert: the monitors whose handleAlert is called, in call order
InvokedMonitors(alert) ==
  LET of == SelectSeq(monitorAgents, LAMBDA agent : isRecognizedAlert(agent, alert))
  IN [j \in 1..Len(of) |-> of[j].name]

\* handleAlert(alert)
HandleAlert(alert) ==
  /\ UNCHANGED storeVars
  /\ Called([op |-> "handleAlert", alert |-> alert, invoked |-> InvokedMonitors(alert),
             streams |-> eventStreams, snaps |-> snapshots, dispatched |-> dispatched],
            MaxStoreCalls)

NextAlerts ==
  \/ \E k \in OpKeys, version \in 0..MaxVersion, n \in 0..MaxBatch : CallSave(k, version, n)
  \/ \E alert \in Alerts : HandleAlert(alert)

SpecAlerts == InitStore /\ [][NextAlerts]_vars

\* ------------------------------------------------------------ properties
Finished(p) == pc[p] \in {"done", "failed"}
Saved(p) == pc[p] = "done" /\ commit[p].done
Contains(stream, events) ==
  \A j \in 1..Len(events) : \E n \in 1..Len(stream) : stream[n] = events[j]

\* C1: when two handleCommand calls on the same (agent, aggregate id) have
\* both saved, they did not both save on top of the same stream content (one
\* of two writers that loaded the same version is rejected and retries), the
\* stream holds the events of both, and no two stored events share a version.
C1_NoLostUpdate ==
  \A p \in Procs, q \in Procs :
    (p # q /\ Saved(p) /\ Saved(q) /\ StreamKey(p) = StreamKey(q)) =>
      /\ snapshot[p].version # snapshot[q].version
      /\ Contains(StreamOf(StreamKey(p)), nextEvents[p])
      /\ Contains(StreamOf(StreamKey(p)), nextEvents[q])
      /\ \A m \in 1..Len(StreamOf(StreamKey(p))), n \in 1..Len(StreamOf(StreamKey(p))) :
           m # n => StreamOf(StreamKey(p))[m].version # StreamOf(StreamKey(p))[n].version

\* a version is current for a stream that is empty or ends with that version
Current(stream, version) == stream = <<>> \/ stream[Len(stream)].version = version
\* a non-empty list of events versioned from the snapshot's version + 1
VersionedFromNext(call) ==
  /\ call.events # <<>>
  /\ \A j \in 1..Len(call.events) : call.events[j].version = call.version + j
\* two saveEvents calls in a row on one stream, built from the same snapshot
\* version, which was current when the first was made
Racing(a, b) ==
  /\ a.op = "saveEvents" /\ b.op = "saveEvents"
  /\ a.key = b.key
  /\ a.version = b.version
  /\ Current(a.before, a.version)
  /\ VersionedFromNext(a) /\ VersionedFromNext(b)

\* C2: of two saveEvents calls built from the same current snapshot version,
\* each with a non-empty list of events versioned from that version + 1, the
\* one executed first succeeds and the other fails with OptimisticLockError,
\* whichever of the two is executed first.
C2_ExactlyOneSucceeds ==
  (Len(storeLog) = 2 /\ Racing(storeLog[1], storeLog[2])) =>
    (storeLog[1].error = "" /\ storeLog[2].error = "OptimisticLockError")

\* two such calls with different event lists on a stream that already holds
\* events
C2_RaceOnStoredStream ==
  /\ Len(storeLog) = 2
  /\ Racing(storeLog[1], storeLog[2])
  /\ storeLog[1].before # <<>>
  /\ Len(storeLog[1].events) # Len(storeLog[2].events)

\* C3: in every reachable state the versions stored in each stream are
\* exactly 1, 2, ..., n in stored order.
C3_VersionsFromOne ==
  \A k \in DOMAIN eventStreams :
    \A j \in 1..Len(eventStreams[k]) : eventStreams[k][j].version = j

\* C4: the event derived at index j of a command handled against a snapshot
\* at baseVersion carries version baseVersion + j + 1.
C4_VersionIsBasePlusIndexPlusOne ==
  \A p \in Procs :
    \A j \in 1..Len(nextEvents[p]) :
      nextEvents[p][j].version = snapshot[p].version + (j - 1) + 1

\* C5 as stated: one handleCommand call makes at most 5 Repository.save
\* calls and surfaces OptimisticLockError after the 5th failed one.
C5_AtMostFiveSaves ==
  \A p \in Procs :
    /\ saveCalls[p] <= 5
    /\ (pc[p] = "failed" /\ error[p] = "OptimisticLockError") => saveCalls[p] = 5

\* C5 amended: one handleCommand call makes at most 6 Repository.save calls
\* (the first attempt and 5 retries); a call whose 6th attempt has been made
\* has ended, and when no attempt succeeded it ended by surfacing
\* OptimisticLockError, which it never does before the 6th attempt.
C5_AtMostSixSaves ==
  \A p \in Procs :
    /\ saveCalls[p] <= 6
    /\ saveCalls[p] = 6 => Finished(p)
    /\ (saveCalls[p] = 6 /\ ~commit[p].done) =>
         (pc[p] = "failed" /\ error[p] = "OptimisticLockError")
    /\ (pc[p] = "failed" /\ error[p] = "OptimisticLockError") => saveCalls[p] = 6

C5_SixthSaveRejected ==
  \E p \in Procs :
    pc[p] = "failed" /\ error[p] = "OptimisticLockError" /\ saveCalls[p] = 6

C7_SavedEventsDispatchedOnce ==
  \A p \in Procs :
    Saved(p) =>
      Cardinality({n \in 1..Len(dispatched) : dispatched[n].messages = nextEvents[p]}) = 1

\* C8: every event handleCommand derives from a command has causationId equal
\* to the id of that command.
C8_EventCausedByCommand ==
  \A p \in Procs :
    \A j \in 1..Len(nextEvents[p]) : nextEvents[p][j].causationId = command[p].id

Messages ==
  inbox
  \cup {command[p] : p \in {q \in Procs : pc[q] # "idle"}}
  \cup UNION {{nextEvents[p][j] : j \in 1..Len(nextEvents[p])} : p \in Procs}
  \cup StoredEvents
  \cup UNION {{dispatched[n].messages[j] : j \in 1..Len(dispatched[n].messages)} :
              n \in 1..Len(dispatched)}

\* the id of the command a message's causal chain originates from: ids are
\* derived by appending an index to the id of the cause
OriginId(m) == <<m.id[1]>>

\* C10: every message of a causal chain carries the correlationId (= id) of
\* the originating command of the chain.
C10_CorrelationIsOrigin ==
  \A m \in Messages : m.correlationId = OriginId(m)

\* an event derived from a command that was itself derived from an event of
\* an originated command
C10_ChainOfFour ==
  \E m \in StoredEvents : Len(m.id) = 4

\* the derivations on record: the events of the first and of the current
\* attempt of each handleCommand call and the commands of each dispatched
\* batch, each with the id of its cause and its index
DerivedFrom(cause, messages) ==
  {[cause |-> cause, index |-> j - 1, id |-> messages[j].id] : j \in 1..Len(messages)}
Derivations ==
  UNION ({DerivedFrom(command[p].id, nextEvents[p]) : p \in Procs}
         \cup {DerivedFrom(command[p].id, first[p].nextEvents) : p \in Procs}
         \cup {DerivedFrom(dispatched[n].cause, dispatched[n].messages) :
                 n \in 1..Len(dispatched)})

\* C11: two derived messages have the same id exactly when they were derived
\* from the same cause id with the same index, on whatever attempt and with
\* whatever type, payload and version.
C11_IdFromCauseAndIndex ==
  \A a \in Derivations, b \in Derivations :
    (a.cause = b.cause /\ a.index = b.index) <=> a.id = b.id

C11_RetryDerivedOtherEvents ==
  /\ \E p \in Procs :
       /\ saveCalls[p] >= 2
       /\ nextEvents[p] # <<>>
       /\ Len(nextEvents[p]) = Len(first[p].nextEvents)
       /\ nextEvents[p] # first[p].nextEvents
  /\ \E n \in 1..Len(dispatched) : Len(dispatched[n].messages) >= 2
\* the most recent direct event store call
LastCall == storeLog[Len(storeLog)]

\* C12: a direct saveEvents call failed with OptimisticLockError exactly when
\* the stream was non-empty and its last stored version differed from
\* snapshot.version; a failed call left the stream as it was and a successful
\* one left it with all the given events appended in order.
C12_SaveEventsGuard ==
  (storeLog # <<>> /\ LastCall.op = "saveEvents") =>
    /\ LastCall.error = "OptimisticLockError" <=> ~Current(LastCall.before, LastCall.version)
    /\ StreamOf(LastCall.key) =
         IF LastCall.error = "" THEN LastCall.before \o LastCall.events ELSE LastCall.before
\* the snapshot and the events the store returns for a key
SnapshotAt(snaps, k) == loadSnapshot(snaps, k[1], k[2])
EventsAt(streams, k) == loadEvents(streams, k[1], k[2], Undefined)

\* C13: a direct saveSnapshot call failed with OptimisticLockError and left
\* the stored snapshot as it was when a snapshot of a greater version was
\* stored for its (name, id); otherwise it succeeded and the given snapshot is
\* the stored one.  The stored version never went down.
C13_SaveSnapshotGuard ==
  (storeLog # <<>> /\ LastCall.op = "saveSnapshot") =>
    LET was == SnapshotAt(LastCall.snaps, LastCall.key)
        is == SnapshotAt(snapshots, LastCall.key)
    IN /\ IF was # <<>> /\ was[1].version > LastCall.snapshot.version
            THEN LastCall.error = "OptimisticLockError" /\ is = was
            ELSE LastCall.error = "" /\ is = <<LastCall.snapshot>>
       /\ was # <<>> => is[1].version >= was[1].version

C13_OlderSnapshotRejected ==
  /\ storeLog # <<>> /\ LastCall.op = "saveSnapshot"
  /\ LastCall.error = "OptimisticLockError"
  /\ SnapshotAt(snapshots, LastCall.key) # <<LastCall.snapshot>>

\* C14: a direct dropSnapshot call removed the stored snapshot of its
\* (name, id) exactly when that snapshot had the given version, and otherwise
\* left the snapshots as they were; it never touched the streams.
C14_DropSnapshotGuard ==
  (storeLog # <<>> /\ LastCall.op = "dropSnapshot") =>
    LET was == SnapshotAt(LastCall.snaps, LastCall.key)
    IN /\ IF was # <<>> /\ was[1].version = LastCall.version
            THEN /\ SnapshotAt(snapshots, LastCall.key) = <<>>
                 /\ \A k \in OpKeys \ {LastCall.key} :
                      SnapshotAt(snapshots, k) = SnapshotAt(LastCall.snaps, k)
            ELSE snapshots = LastCall.snaps
       /\ eventStreams = LastCall.streams

C14_SnapshotDropped ==
  /\ storeLog # <<>> /\ LastCall.op = "dropSnapshot"
  /\ SnapshotAt(LastCall.snaps, LastCall.key) # <<>>
  /\ SnapshotAt(snapshots, LastCall.key) = <<>>

RECURSIVE After(_, _)
\* the events of a stream with a version greater than `version`, in order
After(stream, version) ==
  IF stream = <<>> THEN <<>>
  ELSE (IF Head(stream).version > version THEN <<Head(stream)>> ELSE <<>>)
       \o After(Tail(stream), version)

\* C15: a direct loadEvents call yielded the stored events of the stream with
\* a version greater than baseVersion, in stored order and ascending (every
\* stored event when baseVersion is absent, nothing for an absent aggregate).
C15_LoadEventsAfterBase ==
  (storeLog # <<>> /\ LastCall.op = "loadEvents") =>
    LET stream == IF LastCall.key \in DOMAIN LastCall.streams
                    THEN LastCall.streams[LastCall.key] ELSE <<>>
    IN /\ LastCall.result =
            IF LastCall.baseVersion = Undefined THEN stream
            ELSE After(stream, LastCall.baseVersion)
       /\ \A m \in 1..Len(LastCall.result), n \in 1..Len(LastCall.result) :
            m < n => LastCall.result[m].version < LastCall.result[n].version

C15_LoadedPartOfStream ==
  /\ storeLog # <<>> /\ LastCall.op = "loadEvents"
  /\ LastCall.baseVersion # Undefined
  /\ LastCall.result # <<>>
  /\ Len(LastCall.result) < Len(LastCall.streams[LastCall.key])

\* C16: exists(name, id) is false on a fresh store and, after any calls, true
\* exactly when the stream of (name, id) holds an event or a snapshot is
\* stored for it; it is true right after a saveEvents call that stored events.
C16_ExistsIffStored ==
  /\ \A k \in OpKeys :
       exists(eventStreams, snapshots, k[1], k[2]) <=>
         (Len(EventsAt(eventStreams, k)) > 0 \/ SnapshotAt(snapshots, k) # <<>>)
  /\ storeCalls = 0 => \A k \in OpKeys : ~exists(eventStreams, snapshots, k[1], k[2])
  /\ (storeLog # <<>> /\ LastCall.op = "exists") =>
       (LastCall.result <=>
          (Len(EventsAt(LastCall.streams, LastCall.key)) > 0
           \/ SnapshotAt(LastCall.snaps, LastCall.key) # <<>>))
  /\ (storeLog # <<>> /\ LastCall.op = "saveEvents" /\ LastCall.error = ""
      /\ LastCall.events # <<>>) =>
       exists(eventStreams, snapshots, LastCall.key[1], LastCall.key[2])

C16_ExistsAfterFirstSave ==
  /\ storeLog # <<>> /\ LastCall.op = "exists"
  /\ LastCall.result
  /\ storeCalls = 2
  /\ LastCall.snaps = <<>>

\* C17: a direct saveEvents, saveSnapshot or dropSnapshot call on one
\* (name, id) left the events and the snapshot of every other (name, id) as
\* they were, those of the same id under another name and those of the same
\* name under another id included.
C17_OtherKeysUntouched ==
  (storeLog # <<>> /\ LastCall.op \in {"saveEvents", "saveSnapshot", "dropSnapshot"}) =>
    \A k \in OpKeys \ {LastCall.key} :
      /\ EventsAt(eventStreams, k) = EventsAt(LastCall.streams, k)
      /\ SnapshotAt(snapshots, k) = SnapshotAt(LastCall.snaps, k)

C17_WroteBesideSameId ==
  /\ storeLog # <<>> /\ LastCall.op \in {"saveEvents", "saveSnapshot"}
  /\ LastCall.error = ""
  /\ storeVars # <<LastCall.streams, LastCall.snaps>>
  /\ \E k \in OpKeys \ {LastCall.key} :
       /\ k[2] = LastCall.key[2]
       /\ (EventsAt(eventStreams, k) # <<>> \/ SnapshotAt(snapshots, k) # <<>>)
RECURSIVE Applied(_, _)
\* the state after applyEvent for each of the events, in order
Applied(events, state) ==
  IF events = <<>> THEN state ELSE Applied(Tail(events), applyEvent(Head(events), state))

\* C18: a direct Repository.load call that found no stored snapshot called
\* createInitialState, asked for and applied every stored event of the
\* stream once and in stored order, and returned version 0 for an empty
\* stream and the version of the last stored event otherwise.
C18_LoadWithoutSnapshot ==
  (storeLog # <<>> /\ LastCall.op = "load" /\ SnapshotAt(LastCall.snaps, LastCall.key) = <<>>) =>
    LET stream == EventsAt(LastCall.streams, LastCall.key)
    IN /\ LastCall.created
       /\ LastCall.start.state = createInitialState
       /\ LastCall.applied = stream
       /\ LastCall.result.state = Applied(stream, createInitialState)
       /\ LastCall.result.state.items = Len(stream)
       /\ LastCall.result.version = IF stream = <<>> THEN 0 ELSE stream[Len(stream)].version

C18_ReplayedStream ==
  /\ storeLog # <<>> /\ LastCall.op = "load"
  /\ SnapshotAt(LastCall.snaps, LastCall.key) = <<>>
  /\ Len(LastCall.applied) >= 2

\* C19: a direct Repository.load call that found a stored snapshot did not
\* call createInitialState, started from the stored state and version, asked
\* loadEvents for the events after the stored version and applied exactly
\* those, in order.
C19_LoadFromSnapshot ==
  (storeLog # <<>> /\ LastCall.op = "load" /\ SnapshotAt(LastCall.snaps, LastCall.key) # <<>>) =>
    LET stored == SnapshotAt(LastCall.snaps, LastCall.key)[1]
        after == After(EventsAt(LastCall.streams, LastCall.key), stored.version)
    IN /\ ~LastCall.created
       /\ LastCall.start.state = stored.state
       /\ LastCall.start.version = stored.version
       /\ LastCall.baseVersion = stored.version
       /\ LastCall.applied = after

\* C20: a Repository.load call made right after a direct Repository.load
\* call for the same (agent, id) returns the snapshot that call returned.
C20_LoadTwiceEqual ==
  (storeLog # <<>> /\ LastCall.op = "load") =>
    load(eventStreams, snapshots, LastCall.key[1], LastCall.key[2]) = LastCall.result

\* C21: a direct Repository.save call made exactly one eventStore.saveEvents
\* call, with the agent's name and the snapshot and events it was given, and
\* handed its caller the outcome of that call: the error, OptimisticLockError
\* included, and the stream as that one call left it.
C21_SaveIsOneSaveEvents ==
  (storeLog # <<>> /\ LastCall.op = "save") =>
    LET once == saveEvents(LastCall.streams, LastCall.key[1], LastCall.snapshot,
                           LastCall.events)
    IN /\ LastCall.saveEventsCalls =
            <<[name |-> LastCall.key[1], snapshot |-> LastCall.snapshot,
               events |-> LastCall.events]>>
       /\ LastCall.error = once.error
       /\ eventStreams = once.eventStreams

C21_SaveRejected ==
  /\ storeLog # <<>> /\ LastCall.op = "save"
  /\ LastCall.error = "OptimisticLockError"
  /\ LastCall.events # <<>>
  /\ eventStreams = LastCall.streams

\* the commands some registered agent owns
Owned(c) ==
  \/ \E j \in DOMAIN aggregateMap : c.type \in aggregateMap[j].commandTypes
  \/ \E j \in DOMAIN processManagerMap : c.type \in processManagerMap[j].commandTypes
  \/ \E j \in DOMAIN serviceAgents : c.type \in serviceAgents[j].commandTypes

\* the batches dispatched for, and the stored events derived from, a message
CausedBy(id) ==
  {b \in {dispatched[j] : j \in DOMAIN dispatched} : b.cause = id}
  \cup {e \in StoredEvents : SubSeq(e.id, 1, Len(e.id) - 1) = id}

\* C22: a handleCommand call for a command whose type no registered agent
\* owns has failed with UnhandledCommandError, and it invoked no handler,
\* made no Repository.load and no Repository.save call, never went round the
\* retry loop, and nothing was stored or dispatched for its command.
C22_UnownedCommandFails ==
  \A p \in Procs :
    (command[p] # NoCommand /\ ~Owned(command[p])) =>
      /\ pc[p] = "failed"
      /\ error[p] = "UnhandledCommandError"
      /\ handlerCalls[p] = 0
      /\ loadCalls[p] = 0
      /\ saveCalls[p] = 0
      /\ i[p] = 0
      /\ commit[p] = NoCommit
      /\ CausedBy(command[p].id) = {}

C22_UnownedCommandFailed ==
  \E p \in Procs :
    /\ command[p] # NoCommand /\ ~Owned(command[p])
    /\ pc[p] = "failed"
    /\ eventStreams # <<>>

\* the names of the registered agents whose adopted events include the type
Adopting(type) ==
  {registrations[j].agent.name :
     j \in {n \in DOMAIN registrations :
              /\ registrations[n].kind # "aggregate"
              /\ type \in registrations[n].agent.adoptedEvents}}

\* C23: a handleEvent call in which no handler threw called
\* handleAdoptedEvent of every registered agent whose adopted events include
\* the event's type, once each, and of no other agent.
C23_FanOutToAdopters ==
  \A id \in DOMAIN handled :
    handled[id].error = "" =>
      /\ {handled[id].invoked[j] : j \in DOMAIN handled[id].invoked}
           = Adopting(handled[id].event.type)
      /\ Len(handled[id].invoked) = Cardinality(Adopting(handled[id].event.type))

C23_SomeAdoptSomeNot ==
  \E id \in DOMAIN handled :
    /\ handled[id].error = ""
    /\ handled[id].invoked # <<>>
    /\ Len(handled[id].invoked) < Len(eventListenerMap) + Len(processManagerMap)

RECURSIVE InRegistrationOrder(_, _)
\* the commands the matching agents returned to a handleEvent call, agent by
\* agent in the order the agents were registered
InRegistrationOrder(regs, call) ==
  IF regs = <<>> THEN <<>>
  ELSE (IF Head(regs).agent.name \in Adopting(call.event.type)
          THEN call.returned[Head(regs).agent.name] ELSE <<>>)
       \o InRegistrationOrder(Tail(regs), call)

\* C24: a handleEvent call in which no handler threw passed to dispatch, in
\* one call, the commands its matching agents returned, agent by agent in
\* registration order and in the order each handler returned them, each
\* derived by deriveCommand with its position in that list as index.
C24_BatchInRegistrationOrder ==
  \A id \in DOMAIN handled :
    handled[id].error = "" =>
      LET combined == InRegistrationOrder(registrations, handled[id])
      IN handled[id].batches =
           IF combined = <<>> THEN <<>>
           ELSE <<[j \in 1..Len(combined) |->
                     deriveCommand(handled[id].event, combined[j], j - 1)]>>

\* C25: a finished handleCommand call for a command a service owns called
\* the handler once, made no Repository.load and no Repository.save call,
\* never went round the retry loop, and the events derived from what the
\* handler returned were passed to dispatch.
C25_ServiceEventsDispatched ==
  \A p \in Procs :
    (pc[p] = "done"
       /\ \E j \in DOMAIN serviceAgents : command[p].type \in serviceAgents[j].commandTypes) =>
      /\ handlerCalls[p] = 1
      /\ loadCalls[p] = 0
      /\ saveCalls[p] = 0
      /\ i[p] = 0
      /\ nextEvents[p] # <<>> =>
            \E n \in DOMAIN dispatched : dispatched[n].messages = nextEvents[p]

C26_AlertToRecognizingMonitors ==
  (storeLog # <<>> /\ LastCall.op = "handleAlert") =>
    LET recognizing == {monitorAgents[j].name :
                          j \in {n \in DOMAIN monitorAgents :
                                   LastCall.alert.type \in monitorAgents[n].recognizedAlerts}}
    IN /\ {LastCall.invoked[j] : j \in DOMAIN LastCall.invoked} = recognizing
       /\ Len(LastCall.invoked) = Cardinality(recognizing)
       /\ eventStreams = LastCall.streams
       /\ snapshots = LastCall.snaps
       /\ dispatched = LastCall.dispatched

C26_AlertForOneMonitor ==
  /\ storeLog # <<>> /\ LastCall.op = "handleAlert"
  /\ LastCall.invoked = <<"Telemetry">>
  /\ eventStreams # <<>>

\* C28: a message has causationId null exactly when originateCommand produced
\* it; the causationId of every derived message is the id of an earlier
\* message of its chain, that is, of one of the messages its id descends from.
C28_OnlyOriginUncaused ==
  \A m \in Messages :
    IF Len(m.id) = 1
      THEN m.causationId = Null
      ELSE /\ m.causationId # Null
           /\ \E k \in 1..(Len(m.id) - 1) : m.causationId = SubSeq(m.id, 1, k)

\* C29: every originated message is originateCommand(command, requestId) of a
\* command sent from outside: its id is the request id, its correlationId
\* its id, its causationId null, and its type and payload the command's.
C29_OriginatedAsRequested ==
  \A m \in Messages :
    Len(m.id) = 1 =>
      \E requestId \in DOMAIN RoutedRequests :
        /\ m.id = <<requestId>>
        /\ m.correlationId = m.id
        /\ m.causationId = Null
        /\ m.type = RoutedRequests[requestId].type
        /\ m.payload = RoutedRequests[requestId].payload

C29_OriginatedTwo ==
  \E a \in inbox, b \in inbox :
    Len(a.id) = 1 /\ Len(b.id) = 1 /\ a.id # b.id /\ a.type # b.type

\* C30: no step removes, moves or rewrites a stored event: every stream of
\* the store still exists after the step and still starts with the events it
\* held before it, whichever store operation the step is and whether it
\* succeeded or failed.
C30_StreamsAppendOnly ==
  [][\A k \in DOMAIN eventStreams :
       /\ k \in DOMAIN eventStreams'
       /\ Len(eventStreams'[k]) >= Len(eventStreams[k])
       /\ SubSeq(eventStreams'[k], 1, Len(eventStreams[k])) = eventStreams[k]]_vars

C30_AppendedToStoredStream ==
  /\ storeLog # <<>> /\ LastCall.op = "saveEvents" /\ LastCall.error = ""
  /\ EventsAt(LastCall.streams, LastCall.key) # <<>>
  /\ Len(EventsAt(eventStreams, LastCall.key)) > Len(EventsAt(LastCall.streams, LastCall.key))

\* the stream a command leaves when it is the only one handled for its
\* aggregate: the events its handler returns for the initial state
Alone(c) ==
  LET events == handleCommandOf(AgentOf(c), c, createInitialState)
  IN [j \in 1..Len(events) |-> deriveVersionedEvent(c, events[j], 0, j - 1)]

\* the stream of the (agent, aggregate id) a command is for
Target(c) == StreamOf(<<AgentOf(c).name, c.payload.aggregateId>>)

\* C31: the event store rejects the first save of a call only if the stream
\* of its own (agent, aggregate id) was written between its load and its
\* save, so calls for other aggregates never make it fail; and a stream that
\* holds the events of one command only holds what that command yields
\* alone, whatever calls for other aggregates ran before, between or after.
C31_OtherAggregatesDoNotInterfere ==
  \A p \in Procs :
    /\ first[p].error = "OptimisticLockError" => first[p].loaded # first[p].before
    /\ (commit[p].done /\ \A e \in StoredEvents :
                            e \in {Target(command[p])[j] : j \in DOMAIN Target(command[p])}
                              => SubSeq(e.id, 1, Len(e.id) - 1) = command[p].id) =>
         Target(command[p]) = Alone(command[p])

C31_TwoAggregatesWrittenConcurrently ==
  /\ commit[1].done /\ commit[2].done
  /\ command[1].payload.aggregateId # command[2].payload.aggregateId
  /\ Target(command[1]) # <<>> /\ Target(command[2]) # <<>>
\* the snapshot a replay of the whole stream `events` of a call's aggregate gives
Replayed(p, events) ==
  Replay(events, [id |-> getAggregateId(command[p]), version |-> 0,
                  state |-> createInitialState])

\* the events the handler gives for the state of `snap`, derived from the
\* command and versioned from the version of `snap`
EventsFor(p, snap) ==
  LET events == handleCommandOf(AgentOf(command[p]), command[p], snap.state)
  IN [j \in 1..Len(events) |->
        deriveVersionedEvent(command[p], events[j], snap.version, j - 1)]

EmptyResult(p) ==
  /\ ~handlerRaises(AgentOf(command[p]), command[p], snapshot[p].state)
  /\ handleCommandOf(AgentOf(command[p]), command[p], snapshot[p].state) = <<>>

\* C33: a handleCommand call whose handler returns no events for the state
\* it loaded returns successfully, calls neither Repository.save nor dispatch,
\* and none of its steps, the load included, changes the event store.
C33_EmptyResultLeavesStore ==
  [][\A p \in Procs :
       /\ (pc[p] = "load" /\ pc'[p] = "loaded" /\ EmptyResult(p)') =>
            UNCHANGED <<storeVars, dispatched, saveCalls>>
       /\ (pc[p] = "loaded" /\ pc'[p] # "loaded" /\ EmptyResult(p)) =>
            /\ UNCHANGED <<storeVars, dispatched, saveCalls, error>>
            /\ pc'[p] = "done"]_vars

\* C34: a handleEvent call changes neither a stream nor a snapshot: what
\* the store holds for every process manager that adopts the event is the
\* same after the call as before.
C34_HandleEventLeavesStore ==
  [][delivered' # delivered => UNCHANGED storeVars]_vars

RECURSIVE FirstRegistered(_, _)
\* the first agent with a command handler, in the order of the register
\* calls, whose command types hold the type of the command
FirstRegistered(regs, c) ==
  IF regs = <<>> THEN NoAgent
  ELSE IF Head(regs).kind # "eventListener" /\ c.type \in Head(regs).agent.commandTypes
    THEN [name |-> Head(regs).agent.name, commandTypes |-> Head(regs).agent.commandTypes,
          eventType |-> Head(regs).agent.eventType]
  ELSE FirstRegistered(Tail(regs), c)

\* C35: a handleCommand call invokes the command handler of one agent only,
\* once per attempt, and that agent is the first one in registration order
\* that accepts the command's type: the events of the call are that agent's
\* events and are saved to that agent's stream.
C35_FirstRegisteredAgentHandles ==
  \A p \in Procs :
    /\ handlerCalls[p] <= i[p] + 1
    /\ nextEvents[p] # <<>> =>
         \A j \in 1..Len(nextEvents[p]) :
           nextEvents[p][j].type = FirstRegistered(registrations, command[p]).eventType
    /\ commit[p].done =>
         LET stream == StreamOf(<<FirstRegistered(registrations, command[p]).name,
                                  getAggregateId(command[p])>>)
         IN \A j \in 1..Len(nextEvents[p]) :
              \E n \in 1..Len(stream) : stream[n] = nextEvents[p][j]

\* C36: Repository.load leaves the event store as it found it: after a load,
\* every stream and every stored snapshot, version and state, is what it was
\* before the call, whether or not events after the snapshot were replayed.
C36_LoadLeavesStore ==
  (storeLog # <<>> /\ LastCall.op = "load") =>
    /\ eventStreams = LastCall.streams
    /\ snapshots = LastCall.snaps

\* C37: a Repository.save of a non-empty list of events derived from the
\* snapshot a Repository.load returned, with no write to the aggregate between
\* the two calls, succeeds, whatever stream and snapshot the store holds.
C37_NoSpuriousConflict ==
  (storeLog # <<>> /\ LastCall.op = "loadThenSave") => LastCall.error = ""

\* the events of a stream up to a version
UpTo(stream, version) == SelectSeq(stream, LAMBDA e : e.version <= version)

\* whether a stored snapshot is what replaying the stream up to the
\* snapshot's version onto the initial state gives
IsReplayOf(stored, stream) ==
  LET replayed == Replay(UpTo(stream, stored.version),
                         [id |-> stored.id, version |-> 0, state |-> createInitialState])
  IN stored.version = replayed.version /\ stored.state = replayed.state

\* C38: when the stored snapshot of an aggregate is the replay of its stream
\* up to the snapshot's version, Repository.load returns the version and the
\* state it returns from the same streams with no snapshot stored.
C38_SnapshotTransparent ==
  (storeLog # <<>> /\ LastCall.op = "load"
     /\ SnapshotAt(LastCall.snaps, LastCall.key) # <<>>
     /\ IsReplayOf(SnapshotAt(LastCall.snaps, LastCall.key)[1],
                   EventsAt(LastCall.streams, LastCall.key))) =>
    LET whole == load(LastCall.streams, <<>>, LastCall.key[1], LastCall.key[2])
    IN /\ LastCall.result.version = whole.version
       /\ LastCall.result.state = whole.state
       /\ LastCall.result.state.items = Len(EventsAt(LastCall.streams, LastCall.key))

C38_LoadedFromSnapshotAndEvents ==
  /\ storeLog # <<>>
  /\ LastCall.op = "load"
  /\ SnapshotAt(LastCall.snaps, LastCall.key) # <<>>
  /\ IsReplayOf(SnapshotAt(LastCall.snaps, LastCall.key)[1],
                EventsAt(LastCall.streams, LastCall.key))
  /\ SnapshotAt(LastCall.snaps, LastCall.key)[1].version >= 1
  /\ LastCall.applied # <<>>

\* C39: every handleCommand call that has started its loop completes, with
\* success or with an error, however many of its save attempts fail with
\* OptimisticLockError.
C39_CallsComplete ==
  \A p \in Procs : (pc[p] \in {"load", "loaded"}) ~> (pc[p] \in {"done", "failed"})

C39_EveryAttemptRejected ==
  \E p \in Procs :
    /\ pc[p] = "failed"
    /\ error[p] = "OptimisticLockError"
    /\ i[p] = RetryLimit
    /\ loadCalls[p] = RetryLimit + 1
    /\ saveCalls[p] = loadCalls[p]
    /\ eventStreams = <<>>

====
